---- MODULE Spec2Model ----
(***************************************************************************)
(* MSWordNormalizer (src/src/normalizer.ts): the list-reconstruction       *)
(* engine, the style interpreter and the attribute cleanup, as a state     *)
(* machine over a bounded DOM tree.                                        *)
(*                                                                         *)
(* The document is a sequence of node records; a node's id is its index.   *)
(* Node 1 is <body>.  JavaScript array indices are 0-based, TLA+ sequence  *)
(* indices 1-based: stack[indent] in the source is stack[indent + 1] here. *)
(* Strings that a regular expression scans character by character (style   *)
(* property names, class names) are sequences of one-character strings.    *)
(***************************************************************************)
EXTENDS Integers, Sequences, FiniteSets, TLC

VARIABLES
    html,             \* the input of normalize: [generatorMeta, officeNs, styles, body]
    doc,              \* Document: sequence of node records
    items,            \* itemLikeElements of transformListItemLikeLElementsIntoLists
    idx,              \* position of the for..of loop in items (next item to process)
    stack,            \* the reconstruction stack
    encounteredLists, \* Record<string, number>: key <<id, indent>> -> counter
    created,          \* ids of the list containers createNewEmptyList returned
    inputLists,       \* ids of the list containers of the parsed input body
    pass,             \* 1: normalize(x), 2: normalize(normalize(x))
    pc,               \* "start" | "transform" | "cleanup" | "done" | "thrown"
    output,           \* the string normalize returned (doc.body.innerHTML), as a tree
    classList,        \* removeMSAttributes class loop: the live DOMTokenList
    classIdx,         \* removeMSAttributes class loop: the iterator's index
    classIn,          \* the class list the loop started from
    query,            \* detectListStyle: the item it is called with
    sheet,            \* detectListStyle: the styles string it is called with
    result,           \* detectListStyle: the descriptor it returned
    childNodes,       \* findBulletedListStyle: the child nodes of its element
    marker            \* findBulletedListStyle: what it returned

vars == <<html, doc, items, idx, stack, encounteredLists, created, inputLists,
          pass, pc, output, classList, classIdx, classIn, query, sheet, result,
          childNodes, marker>>

normVars == <<html, doc, items, idx, stack, encounteredLists, created,
              inputLists, pass, pc, output>>
classVars == <<classList, classIdx, classIn>>
styleVars == <<query, sheet, result, childNodes, marker>>

----------------------------------------------------------------------------
(* Bounds *)

MaxItems == 3        \* child nodes of <body> in the input
MaxLevel == 2        \* largest levelN of an mso-list value in the input
MaxClasses == 3      \* class names on one element

Undefined == "undefined"   \* a missing string
Null == "null"             \* a null string
Body == 1                  \* doc.body
NoNode == 0                \* a null node reference

\* A JavaScript number-valued slot: a number, null, undefined or NaN.
Num(n) == [t |-> "num", n |-> n]
JsNull == [t |-> "null"]
JsUndefined == [t |-> "undefined"]
JsNaN == [t |-> "NaN"]
IsNum(v) == v.t = "num"
\* ToBoolean: null, undefined, NaN and 0 are falsy
Truthy(v) == IsNum(v) /\ v.n # 0

----------------------------------------------------------------------------
(* Character-level strings *)

UpperChars == <<"A","B","C","D","E","F","G","H","I","J","K","L","M",
                "N","O","P","Q","R","S","T","U","V","W","X","Y","Z">>
LowerChars == <<"a","b","c","d","e","f","g","h","i","j","k","l","m",
                "n","o","p","q","r","s","t","u","v","w","x","y","z">>
DigitChars == {"0","1","2","3","4","5","6","7","8","9"}

ToLowerChar(c) ==
    IF \E k \in 1..26 : UpperChars[k] = c
    THEN LowerChars[CHOOSE k \in 1..26 : UpperChars[k] = c]
    ELSE c

\* \w of a JavaScript regular expression
IsWordChar(c) ==
    \/ \E k \in 1..26 : UpperChars[k] = c \/ LowerChars[k] = c
    \/ c \in DigitChars
    \/ c = "_"

K_msoList == <<"m","s","o","-","l","i","s","t">>
K_color == <<"c","o","l","o","r">>
K_listStyleType == <<"l","i","s","t","-","s","t","y","l","e","-","t","y","p","e">>

C_MsoNormal == <<"M","s","o","N","o","r","m","a","l">>
C_MsoListParagraph == <<"M","s","o","L","i","s","t","P","a","r","a","g","r","a","p","h">>
C_note == <<"n","o","t","e">>
C_xmso == <<"x","m","s","o">>
C_fooMso == <<"f","o","o","-","m","s","o">>

\* /\bmso/gi.exec(s) on a fresh regular expression object (lastIndex 0):
\* "mso" in any letter case, preceded by the start of the string or by a
\* character that is not a word character.
MsoRegex(s) ==
    \E k \in 1..(Len(s) - 2) :
        /\ ToLowerChar(s[k]) = "m"
        /\ ToLowerChar(s[k + 1]) = "s"
        /\ ToLowerChar(s[k + 2]) = "o"
        /\ (k = 1 \/ ~IsWordChar(s[k - 1]))

----------------------------------------------------------------------------
(* Sequence helpers *)

Min(a, b) == IF a < b THEN a ELSE b

IndexOf(s, x) == IF \E k \in 1..Len(s) : s[k] = x
                 THEN CHOOSE k \in 1..Len(s) : s[k] = x /\ \A j \in 1..(k - 1) : s[j] # x
                 ELSE 0

RemoveAt(s, k) == SubSeq(s, 1, k - 1) \o SubSeq(s, k + 1, Len(s))

InsertAt(s, k, x) == SubSeq(s, 1, k - 1) \o <<x>> \o SubSeq(s, k, Len(s))

Without(s, x) == IF IndexOf(s, x) = 0 THEN s ELSE RemoveAt(s, IndexOf(s, x))

Last(s) == s[Len(s)]

RECURSIVE Flatten(_)
Flatten(ss) == IF ss = <<>> THEN <<>> ELSE Head(ss) \o Flatten(Tail(ss))

----------------------------------------------------------------------------
(* The DOM the engine consumes *)

\* A node.  tagName is Undefined for text and comment nodes (a Text or a
\* Comment has no tagName property).  style is the inline style attribute as
\* the sequence of its declarations; content is the inline content of a
\* block element (marker spans, text), which the engine never reparents.
NewNode(nodeType, tagName, parent) ==
    [nodeType |-> nodeType, tagName |-> tagName, parent |-> parent,
     children |-> <<>>, style |-> <<>>, classes |-> <<>>, content |-> <<>>,
     start |-> JsNull, typeAttr |-> Null]

IsElement(d, n) == d[n].nodeType = "element"

\* element.previousSibling: the node before it in its parent's childNodes
previousSibling(d, n) ==
    LET p == d[n].parent IN
    IF p = NoNode THEN NoNode
    ELSE LET k == IndexOf(d[p].children, n) IN
         IF k <= 1 THEN NoNode ELSE d[p].children[k - 1]

\* parent.children: the element children only
ElementChildren(d, p) == SelectSeq(d[p].children, LAMBDA c : IsElement(d, c))

\* parent.removeChild(n)
RemoveChild(d, n) ==
    LET p == d[n].parent IN
    IF p = NoNode THEN d
    ELSE [d EXCEPT ![p].children = Without(@, n), ![n].parent = NoNode]

\* parent.appendChild(n): n leaves its old parent first
AppendChild(d, p, n) ==
    LET d1 == RemoveChild(d, n) IN
    [d1 EXCEPT ![p].children = Append(@, n), ![n].parent = p]

\* parent.insertBefore(n, ref)
InsertBefore(d, p, n, ref) ==
    LET d1 == RemoveChild(d, n)
        k == IndexOf(d1[p].children, ref)
    IN [d1 EXCEPT ![p].children = InsertAt(@, k, n), ![n].parent = p]

\* document.createElement(tag): a new node with no parent
CreateElement(d, tag) == Append(d, NewNode("element", tag, NoNode))

RECURSIVE Preorder(_, _)
\* n and its descendants in document order
Preorder(d, n) ==
    <<n>> \o Flatten([k \in 1..Len(d[n].children) |-> Preorder(d, d[n].children[k])])

\* doc.querySelectorAll('*') below <body>: the attached elements in document order
QuerySelectorAll(d) == SelectSeq(Tail(Preorder(d, Body)), LAMBDA n : IsElement(d, n))

RECURSIVE IsAttached(_, _)
\* n is <body> or a descendant of it
IsAttached(d, n) ==
    IF n = Body THEN TRUE
    ELSE IF d[n].parent = NoNode THEN FALSE
    ELSE IsAttached(d, d[n].parent)

----------------------------------------------------------------------------
(* Inline styles and the mso-list value *)

\* An mso-list value, by the sub-patterns getListItemData looks for:
\* l<digits>, lfo<digits>, level<digits>.  A value that lacks one of them
\* is a record without that field.
MsoValue(l, lfo, level) == [l |-> l, lfo |-> lfo, level |-> level]
MsoMalformed == [l |-> "1"]

Decl(key, value) == [key |-> key, value |-> value]

\* convertStyleToObject: the declarations by property name; a later
\* declaration of a property overwrites an earlier one.
HasProperty(style, key) == \E k \in 1..Len(style) : style[k].key = key

PropertyValue(style, key) ==
    style[CHOOSE k \in 1..Len(style) :
              style[k].key = key /\ \A j \in (k + 1)..Len(style) : style[j].key # key].value

\* getListItemData: a ListItemData, its optional properties present or not
getListItemData(style) ==
    IF ~HasProperty(style, K_msoList) THEN [element |-> NoNode]
    ELSE LET listStyle == PropertyValue(style, K_msoList) IN
         IF {"l", "lfo", "level"} \subseteq DOMAIN listStyle
         THEN [id |-> listStyle.l, order |-> listStyle.lfo, indent |-> listStyle.level,
               element |-> NoNode]
         ELSE [indent |-> 1, element |-> NoNode]

\* itemLikeElement.id, undefined when the property is missing
IdOf(item) == IF "id" \in DOMAIN item THEN item.id ELSE Undefined

\* removeMSOStyles: drop every declaration whose property name matches /\bmso/
removeMSOStyles(style) == SelectSeq(style, LAMBDA decl : ~MsoRegex(decl.key))

\* element.tagName.toLowerCase() throws a TypeError on a node without tagName
isListThrows(d, n) == d[n].tagName = Undefined

\* isList
isList(d, n) == d[n].tagName \in {"ul", "ol"}

\* the node isListContinuation hands to isList
ContinuationNode(d, currentItem) ==
    LET prev == previousSibling(d, currentItem.element) IN
    IF prev = NoNode THEN d[currentItem.element].parent ELSE prev

\* isListContinuation with the adjacency test left out: every candidate continues
isListContinuation_always(d, currentItem) == TRUE

\* isListContinuation
isListContinuation(d, currentItem) == isList(d, ContinuationNode(d, currentItem))

EligibleTags == {"p", "h1", "h2", "h3", "h4", "h5", "h6", "li", "div"}

\* the filter of findAllItemLikeElements on one element
IsItemLike(d, n) ==
    /\ d[n].tagName \in EligibleTags
    /\ HasProperty(d[n].style, K_msoList)
    /\ d[n].parent # NoNode
    /\ ~isList(d, d[n].parent)

\* findAllItemLikeElements
findAllItemLikeElements(d) ==
    LET els == SelectSeq(QuerySelectorAll(d), LAMBDA n : IsItemLike(d, n)) IN
    [k \in 1..Len(els) |->
        [getListItemData(d[els[k]].style) EXCEPT !.element = els[k]]]

----------------------------------------------------------------------------
(* Style interpreter *)

\* One "@list l<id>:level<level> { ... }" rule of the styles string.
\* numberFormat: the value of mso-level-number-format, Undefined if absent;
\* startAt: the value of mso-level-start-at as Num(n), JsNull if absent;
\* legalText: mso-level-text:"%<digit>\. occurs in the rule.
Rule(id, level, numberFormat, startAt, legalText) ==
    [id |-> id, level |-> level, numberFormat |-> numberFormat,
     startAt |-> startAt, legalText |-> legalText]

\* code points of the marker glyphs findBulletedListStyle compares with
CP_o == 111
CP_middot == 183
CP_section == 167

\* An inline child of a block element.
Inline(nodeType, tagName, text, ignore) ==
    [nodeType |-> nodeType, tagName |-> tagName, text |-> text, ignore |-> ignore]

\* findListMarkerNode: element.children holds elements only; the result is
\* <<>> for null and <<node>> for a node
findListMarkerNode(content) ==
    LET children == SelectSeq(content, LAMBDA c : c.nodeType = "element") IN
    IF children # <<>> /\ children[1].tagName = "#text" THEN <<>>
    ELSE LET spans == SelectSeq(children, LAMBDA c : c.tagName \in {"element", "span"}) IN
         IF spans = <<>> THEN <<>> ELSE <<spans[1]>>

\* findBulletedListStyle
findBulletedListStyle(d, element) ==
    IF /\ d[element].tagName = "li"
       /\ d[d[element].parent].tagName = "ul"
       /\ d[d[element].parent].typeAttr # Null
    THEN d[d[element].parent].typeAttr
    ELSE LET listMarkerElement == findListMarkerNode(d[element].content) IN
         IF listMarkerElement = <<>> THEN Null
         ELSE LET listMarker == listMarkerElement[1].text IN
              IF listMarker = <<CP_o>> THEN "circle"
              ELSE IF listMarker # <<>> /\ listMarker[1] = CP_middot THEN "disc"
              ELSE IF listMarker = <<CP_section>> THEN "square"
              ELSE Null

\* mapListStyleDefinition
mapListStyleDefinition(value) ==
    IF value = "arabic-leading-zero" THEN "decimal-leading-zero"
    ELSE IF value = "alpha-upper" THEN "upper-alpha"
    ELSE IF value = "alpha-lower" THEN "lower-alpha"
    ELSE IF value = "roman-upper" THEN "upper-roman"
    ELSE IF value = "roman-lower" THEN "lower-roman"
    ELSE IF value \in {"circle", "disc", "square"} THEN value
    ELSE Null

\* "level\d" of the two list-wide patterns: a single digit
SingleDigit(level) == level \in 0..9

\* legalStyleListRegex.exec(stylesString) is not null
legalStyleListMatch(id, styles) ==
    \E r \in styles : r.id = id /\ SingleDigit(r.level) /\ r.legalText

\* multiLevelNumberFormatTypeRegex.exec(stylesString) is not null
multiLevelNumberFormatMatch(id, styles) ==
    \E r \in styles : r.id = id /\ SingleDigit(r.level) /\ r.numberFormat # Undefined

\* islegalStyleList without the number-format test
islegalStyleList_always(id, styles) == legalStyleListMatch(id, styles)

\* islegalStyleList of detectListStyle
islegalStyleList(id, styles) ==
    legalStyleListMatch(id, styles) /\ ~multiLevelNumberFormatMatch(id, styles)

\* detectListStyle
detectListStyle(d, listLikeItem, styles) ==
    LET legal == islegalStyleList(IdOf(listLikeItem), styles)
        matches == {r \in styles : r.id = IdOf(listLikeItem) /\ r.level = listLikeItem.indent}
    IN
    IF matches = {}
    THEN [type |-> "ol", startIndex |-> JsNull,
          style |-> mapListStyleDefinition("decimal"), isLegalStyleList |-> legal]
    ELSE
        LET rule == CHOOSE r \in matches : TRUE
            listStyleType0 == IF rule.numberFormat # Undefined THEN rule.numberFormat
                              ELSE "decimal"
            type0 == IF rule.numberFormat # Undefined
                        /\ listStyleType0 \in {"bullet", "image"} THEN "ul" ELSE "ol"
            bulletedStyle == IF listStyleType0 = "bullet"
                             THEN findBulletedListStyle(d, listLikeItem.element) ELSE Null
            listStyleType == IF bulletedStyle # Null THEN bulletedStyle ELSE listStyleType0
            startIndex == IF listStyleType0 # "bullet" THEN rule.startAt ELSE JsNull
            type == IF legal THEN "ol" ELSE type0
        IN [type |-> type, startIndex |-> startIndex,
            style |-> mapListStyleDefinition(listStyleType), isLegalStyleList |-> legal]

\* createNewEmptyList(listStyle, false): the document with the new container
\* as its last node
createNewEmptyList(d, listStyle) ==
    LET n == Len(d) + 1
        d1 == CreateElement(d, listStyle.type)
        d2 == IF listStyle.style # Null
              THEN [d1 EXCEPT ![n].style = <<Decl(K_listStyleType, listStyle.style)>>]
              ELSE d1
    IN IF Truthy(listStyle.startIndex) /\ listStyle.startIndex.n > 1
       THEN [d2 EXCEPT ![n].start = listStyle.startIndex]
       ELSE d2

\* removeMsoListIgnoreSpans
removeMsoListIgnoreSpans(d, element) ==
    [d EXCEPT ![element].content =
        SelectSeq(@, LAMBDA c : ~(c.tagName = "span" /\ c.ignore))]

----------------------------------------------------------------------------
(* List reconstruction engine: one iteration of the for..of loop *)

\* encounteredLists[key], undefined for a key never written
Counter(enc, key) == IF key \in DOMAIN enc THEN enc[key] ELSE JsUndefined

SetCounter(enc, key, v) ==
    [k \in (DOMAIN enc) \cup {key} |-> IF k = key THEN v ELSE enc[k]]

\* x++ on a number slot: undefined++ and NaN++ give NaN
Increment(v) == IF IsNum(v) THEN Num(v.n + 1) ELSE JsNaN

NoCounters == [k \in {} |-> JsNull]

\* stack[indent]?.id
FrameId(st, indent) ==
    IF indent + 1 \in 1..Len(st) THEN st[indent + 1].id ELSE Undefined

\* stack[indent]?.listElement.tagName.toLowerCase()
FrameTag(d, st, indent) ==
    IF indent + 1 \in 1..Len(st) THEN d[st[indent + 1].listElement].tagName ELSE Undefined

\* stack[indent] = frame, for indent <= stack.length
SetFrame(st, indent, frame) ==
    IF indent + 1 <= Len(st) THEN [st EXCEPT ![indent + 1] = frame]
    ELSE Append(st, frame)

\* the indentation as it would be without the clamp to the stack length
NormalizedIndent_unclamped(item, st) == item.indent - 1

\* "Normalized list item indentation."
NormalizedIndent(item, st) == Min(item.indent - 1, Len(st))

\* The state of one iteration.
Outcome(thrown, d, st, enc, cr) ==
    [thrown |-> thrown, doc |-> d, stack |-> st, enc |-> enc, created |-> cr]

\* the condition as it would be without the counter map
ResumesCounter_never(indent, listStyle, item, enc) == FALSE

\* the condition as it would be if an explicit start index were kept
ResumesCounter_onlyWithoutStart(indent, listStyle, item, enc) ==
    /\ indent = 0
    /\ listStyle.type = "ol"
    /\ IdOf(item) # Undefined
    /\ Truthy(Counter(enc, <<IdOf(item), item.indent>>))
    /\ ~IsNum(listStyle.startIndex)

\* lines 87-92: the start index is taken from the counter of the key
ResumesCounter(indent, listStyle, item, enc) ==
    /\ indent = 0
    /\ listStyle.type = "ol"
    /\ IdOf(item) # Undefined
    /\ Truthy(Counter(enc, <<IdOf(item), item.indent>>))

\* the insertion as it would be if the stack were never consulted
InsertNewList_alwaysBefore(d, st, indent, item, listElement) ==
    LET parent == d[item.element].parent IN
    InsertBefore(d, parent, listElement, item.element)

\* "Insert the new OL/UL."
InsertNewList(d, st, indent, item, listElement) ==
    IF Len(st) = 0
    THEN LET parent == d[item.element].parent
             siblings == ElementChildren(d, parent)
         IN IF IndexOf(siblings, item.element) = Len(siblings)
            THEN AppendChild(d, parent, listElement)
            ELSE InsertBefore(d, parent, listElement, item.element)
    ELSE IF indent - 1 >= 0 /\ indent <= Len(st) /\ st[indent].listItemElements # <<>>
         THEN AppendChild(d, Last(st[indent].listItemElements), listElement)
         ELSE d

\* "Create a new OL/UL if required (greater indent or different list type)."
NeedsNewList(d, st, indent, listStyle) ==
    indent > Len(st) - 1 \/ FrameTag(d, st, indent) # listStyle.type

\* Lines 84-127: the else branch that may open a container.
OpenList(d, st, enc, cr, item, indent, styles) ==
    LET listStyle0 == detectListStyle(d, item, styles) IN
    IF ~NeedsNewList(d, st, indent, listStyle0) THEN Outcome(FALSE, d, st, enc, cr)
    ELSE
        LET key == <<IdOf(item), item.indent>>
            listStyle == IF ResumesCounter(indent, listStyle0, item, enc)
                         THEN [listStyle0 EXCEPT !.startIndex = Counter(enc, key)]
                         ELSE listStyle0
            d1 == createNewEmptyList(d, listStyle)
            listElement == Len(d1)
            d2 == InsertNewList(d1, st, indent, item, listElement)
            frame == [id |-> IdOf(item),
                      order |-> IF "order" \in DOMAIN item THEN item.order ELSE Undefined,
                      indent |-> item.indent, element |-> item.element,
                      listElement |-> listElement, listItemElements |-> <<>>]
            st1 == SetFrame(st, indent, frame)
            enc1 == IF indent = 0 /\ IdOf(item) # Undefined
                    THEN SetCounter(enc, key,
                            IF Truthy(listStyle.startIndex) THEN listStyle.startIndex ELSE Num(1))
                    ELSE enc
        IN Outcome(FALSE, d2, st1, enc1, cr \cup {listElement})

\* Lines 130-147: the <li>, the counter, the move of the block, the cleaning.
AppendListItem(o, item, indent) ==
    LET d == o.doc
        isLi == d[item.element].tagName = "li"
        d1 == IF isLi THEN d ELSE CreateElement(d, "li")
        listItem == IF isLi THEN item.element ELSE Len(d1)
        hasFrame == indent + 1 \in 1..Len(o.stack)
        d2 == IF hasFrame THEN AppendChild(d1, o.stack[indent + 1].listElement, listItem)
              ELSE d1
        st1 == IF hasFrame
               THEN [o.stack EXCEPT ![indent + 1].listItemElements = Append(@, listItem)]
               ELSE o.stack
        key == <<IdOf(item), item.indent>>
        enc1 == IF indent = 0 /\ IdOf(item) # Undefined
                THEN SetCounter(o.enc, key, Increment(Counter(o.enc, key)))
                ELSE o.enc
        d3 == IF item.element # listItem THEN AppendChild(d2, listItem, item.element) ELSE d2
        d4 == removeMsoListIgnoreSpans(d3, item.element)
    IN Outcome(FALSE, d4, st1, enc1, o.created)

\* the condition as it would be if list ids were not compared
IdChanged_never(st, indent, item) == FALSE

\* "Trimming of the list stack on list ID change."
IdChanged(st, indent, item) ==
    indent < Len(st) /\ FrameId(st, indent) # IdOf(item)

\* Lines 64-148: the body of the loop for one itemLikeElement.
ProcessItem(d, st, enc, cr, item, styles) ==
    IF "indent" \notin DOMAIN item THEN Outcome(FALSE, d, st, enc, cr)
    ELSE IF isListThrows(d, ContinuationNode(d, item)) THEN Outcome(TRUE, d, st, enc, cr)
    ELSE
        LET st1 == IF ~isListContinuation(d, item) THEN <<>> ELSE st
            indent == NormalizedIndent(item, st1)
            idChanged == IdChanged(st1, indent, item)
        IN
        \* stack.length = indent with a negative indent: RangeError
        IF idChanged /\ indent < 0 THEN Outcome(TRUE, d, st1, enc, cr)
        ELSE
            LET st2 == IF idChanged THEN SubSeq(st1, 1, indent) ELSE st1 IN
            IF indent < Len(st2) - 1
            THEN AppendListItem(Outcome(FALSE, d, SubSeq(st2, 1, indent + 1), enc, cr),
                                item, indent)
            ELSE AppendListItem(OpenList(d, st2, enc, cr, item, indent, styles),
                                item, indent)

----------------------------------------------------------------------------
(* Attribute cleanup *)

\* One turn of "for (const className of item.classList)": the iterator reads
\* the live list at its index, the body removes the token if it matches, and
\* the iterator moves to the next index whatever the body did.
ClassLoopStep(list, i, snapshot) ==
    IF MsoRegex(list[i]) THEN RemoveAt(list, i) ELSE list

\* the loop runs while the iterator's index is inside the live list
ClassLoopRuns(list, i, snapshot) == i <= Len(list)

RECURSIVE ClassLoop(_, _, _)
ClassLoop(list, i, snapshot) ==
    IF ~ClassLoopRuns(list, i, snapshot) THEN list
    ELSE ClassLoop(ClassLoopStep(list, i, snapshot), i + 1, snapshot)

\* the class loop of removeMSAttributes on one element
RemoveMsoClasses(list) == ClassLoop(list, 1, list)

\* isElementEmpty
isElementEmpty(d, n) == d[n].children = <<>> /\ d[n].content = <<>>

\* "Push word specific elements to an array"
IsWordSpecific(d, n) ==
    \/ d[n].tagName = "w:sdt"
    \/ d[n].tagName = "w:sdtpr" /\ isElementEmpty(d, n)
    \/ d[n].tagName = "o:p" /\ isElementEmpty(d, n)

RECURSIVE RemoveAll(_, _)
RemoveAll(d, ns) == IF ns = <<>> THEN d ELSE RemoveAll(RemoveChild(d, Head(ns)), Tail(ns))

\* removeMSAttributes
removeMSAttributes(d) ==
    LET els == <<Body>> \o QuerySelectorAll(d)
        inDoc == {els[k] : k \in 1..Len(els)}
        d1 == [n \in 1..Len(d) |->
                 IF n \in inDoc
                 THEN [d[n] EXCEPT !.classes = RemoveMsoClasses(@),
                                   !.style = removeMSOStyles(@)]
                 ELSE d[n]]
    IN RemoveAll(d1, SelectSeq(els, LAMBDA n : IsWordSpecific(d, n)))

\* doc.body.innerHTML: what is attached to <body>, in document order;
\* a node that is not below <body> is not part of the string
Serialize(d) ==
    LET ord == Preorder(d, Body)
        new(n) == IndexOf(ord, n)
    IN [k \in 1..Len(ord) |->
          [d[ord[k]] EXCEPT
              !.parent = IF ord[k] = Body THEN NoNode ELSE new(d[ord[k]].parent),
              !.children = [j \in 1..Len(d[ord[k]].children) |-> new(d[ord[k]].children[j])]]]

\* the list containers of a document
ListsOf(d) == {n \in 1..Len(d) : IsElement(d, n) /\ isList(d, n) /\ IsAttached(d, n)}

----------------------------------------------------------------------------
(* Detector *)

\* MS_WORD_MATCHES[0] and [1] tested on the input string
isActive(h) == h.generatorMeta \/ h.officeNs

----------------------------------------------------------------------------
(* Inputs *)

\* the mso-list values of the inputs: list 1 on every level from 0 and, with
\* another lfo, on level 1; list 2 on the levels 1 and 2; and a value without
\* lfo and level
MsoValues ==
    {MsoValue("1", "1", lv) : lv \in 0..MaxLevel}
    \cup {MsoValue("1", "2", 1)}
    \cup {MsoValue("2", "1", lv) : lv \in {1, 2}}
    \cup {MsoMalformed}

\* what a child of <body> can be in the input
SlotKinds ==
    {[k |-> "text"], [k |-> "comment"], [k |-> "plain"], [k |-> "list"]}
    \cup {[k |-> "item", tag |-> "p", mso |-> m] : m \in MsoValues}
    \cup {[k |-> "item", tag |-> "li", mso |-> MsoValue("1", "1", 1)]}

\* the inline content Word gives a list paragraph: the rendered marker in a
\* span marked mso-list:Ignore, then the text
ItemContent ==
    <<Inline("element", "span", <<CP_middot>>, TRUE),
      Inline("text", Undefined, <<CP_o>>, FALSE)>>

SlotNode(slot) ==
    IF slot.k = "text" THEN NewNode("text", Undefined, Body)
    ELSE IF slot.k = "comment" THEN NewNode("comment", Undefined, Body)
    ELSE IF slot.k = "plain"
    THEN [NewNode("element", "p", Body) EXCEPT
             !.classes = <<C_MsoNormal>>, !.style = <<Decl(K_color, "red")>>]
    ELSE IF slot.k = "list" THEN NewNode("element", "ul", Body)
    ELSE [NewNode("element", slot.tag, Body) EXCEPT
             !.classes = <<C_MsoListParagraph, C_note>>,
             !.style = <<Decl(K_color, "red"), Decl(K_msoList, slot.mso)>>,
             !.content = ItemContent]

\* The parsed body of an input whose <body> holds the given children.  An
\* existing <ul> holds one <li> that declares mso-list.
BuildDoc(slots) ==
    LET n == Len(slots)
        listSlots == SelectSeq([k \in 1..n |-> k], LAMBDA k : slots[k].k = "list")
        childOf(k) == n + 1 + IndexOf(listSlots, k)
        tops == [k \in 1..n |->
                   IF slots[k].k = "list"
                   THEN [SlotNode(slots[k]) EXCEPT !.children = <<childOf(k)>>]
                   ELSE SlotNode(slots[k])]
        lis == [j \in 1..Len(listSlots) |->
                  [NewNode("element", "li", listSlots[j] + 1) EXCEPT
                      !.style = <<Decl(K_msoList, MsoValue("1", "1", 1))>>,
                      !.content = ItemContent]]
        body == [NewNode("element", "body", NoNode) EXCEPT
                    !.children = [k \in 1..n |-> k + 1]]
    IN <<body>> \o tops \o lis

\* the HTML parser merges adjacent text: no two text nodes are siblings
Parseable(slots) ==
    \A k \in 1..(Len(slots) - 1) : ~(slots[k].k = "text" /\ slots[k + 1].k = "text")

Bodies ==
    {BuildDoc(slots) : slots \in
        {sl \in UNION {[1..n -> SlotKinds] : n \in 0..MaxItems} : Parseable(sl)}}

\* the style sheets of the inputs: none, and one where list 1 starts at 5 on
\* level 1 and is bulleted on level 2
StartAtFive == 5
SheetNone == {}
SheetA == {Rule("1", 1, Undefined, Num(StartAtFive), FALSE),
           Rule("1", 2, "bullet", JsNull, FALSE)}

\* Word clipboard HTML: the generator meta tag and the Office namespace are
\* both there, the style sheet is one of the two
WordInputs ==
    [generatorMeta : {TRUE}, officeNs : {TRUE}, styles : {SheetNone, SheetA}, body : Bodies]

\* Any HTML: each of the two MS_WORD_MATCHES patterns matches it or not
AnyInputs ==
    [generatorMeta : BOOLEAN, officeNs : BOOLEAN, styles : {SheetA}, body : Bodies]

----------------------------------------------------------------------------
(* normalize as a state machine *)

IdleClass == classList = <<>> /\ classIdx = 1 /\ classIn = <<>>
IdleSniff == childNodes = <<>> /\ marker = "none"
IdleStyle ==
    /\ query = [element |-> NoNode] /\ sheet = {} /\ result = [type |-> "none"]
    /\ IdleSniff

InitWith(inputs) ==
    /\ html \in inputs
    /\ doc = <<>>
    /\ items = <<>>
    /\ idx = 1
    /\ stack = <<>>
    /\ encounteredLists = NoCounters
    /\ created = {}
    /\ inputLists = {}
    /\ pass = 1
    /\ pc = "start"
    /\ output = <<>>
    /\ IdleClass
    /\ IdleStyle

\* Parse as it would be if normalize returned a string that isActive rejects
\* untouched
Parse_gated ==
    /\ pc = "start"
    /\ doc' = html.body
    /\ items' = IF isActive(html) THEN findAllItemLikeElements(doc') ELSE <<>>
    /\ idx' = 1
    /\ stack' = <<>>
    /\ encounteredLists' = NoCounters
    /\ created' = {}
    /\ inputLists' = ListsOf(doc')
    /\ pc' = IF items' = <<>> THEN "cleanup" ELSE "transform"
    /\ UNCHANGED <<html, pass, output, classVars, styleVars>>

\* normalize, lines 12-14, and transformListItemLikeLElementsIntoLists, lines 51-61
Parse ==
    /\ pc = "start"
    /\ doc' = html.body
    /\ items' = findAllItemLikeElements(doc')
    /\ idx' = 1
    /\ stack' = <<>>
    /\ encounteredLists' = NoCounters
    /\ created' = {}
    /\ inputLists' = ListsOf(doc')
    /\ pc' = IF items' = <<>> THEN "cleanup" ELSE "transform"
    /\ UNCHANGED <<html, pass, output, classVars, styleVars>>

\* one iteration of the loop of lines 63-149 that completes
Step ==
    /\ pc = "transform"
    /\ idx <= Len(items)
    /\ \E o \in {ProcessItem(doc, stack, encounteredLists, created, items[idx], html.styles)} :
       /\ ~o.thrown
       /\ doc' = o.doc
       /\ stack' = o.stack
       /\ encounteredLists' = o.enc
       /\ created' = o.created
    /\ idx' = idx + 1
    /\ pc' = IF idx = Len(items) THEN "cleanup" ELSE "transform"
    /\ UNCHANGED <<html, items, inputLists, pass, output, classVars, styleVars>>

\* one iteration that throws: normalize ends with the exception
StepThrows ==
    /\ pc = "transform"
    /\ idx <= Len(items)
    /\ \E o \in {ProcessItem(doc, stack, encounteredLists, created, items[idx], html.styles)} :
       /\ o.thrown
       /\ stack' = o.stack
    /\ pc' = "thrown"
    /\ UNCHANGED <<html, doc, items, idx, encounteredLists, created, inputLists, pass,
                   output, classVars, styleVars>>

\* normalize, lines 15-16: the cleanup and the returned string
Cleanup ==
    /\ pc = "cleanup"
    /\ doc' = removeMSAttributes(doc)
    /\ output' = Serialize(doc')
    /\ pc' = "done"
    /\ UNCHANGED <<html, items, idx, stack, encounteredLists, created, inputLists, pass,
                   classVars, styleVars>>

\* normalize called on the string the first call returned: a body fragment,
\* with no <head> and so no generator meta tag and no style sheet
NormalizeAgain ==
    /\ pc = "done"
    /\ pass = 1
    /\ html' = [generatorMeta |-> FALSE, officeNs |-> FALSE, styles |-> {}, body |-> output]
    /\ pass' = 2
    /\ pc' = "start"
    /\ UNCHANGED <<doc, items, idx, stack, encounteredLists, created, inputLists, output,
                   classVars, styleVars>>

Next == Parse \/ Step \/ StepThrows \/ Cleanup \/ NormalizeAgain

\* normalize on Word clipboard HTML, the input the README's caller hands it
Init == InitWith(WordInputs)

Spec == Init /\ [][Next]_vars

\* normalize on any HTML string
InitAny == InitWith(AnyInputs)

SpecAny == InitAny /\ [][Next]_vars

----------------------------------------------------------------------------
(* The class loop of removeMSAttributes, turn by turn *)

ClassNames == {C_MsoNormal, C_MsoListParagraph, C_note, C_xmso, C_fooMso}

\* a DOMTokenList holds each token once
ClassLists ==
    {cl \in UNION {[1..n -> ClassNames] : n \in 0..MaxClasses} :
        \A i, j \in 1..Len(cl) : i # j => cl[i] # cl[j]}

IdleNormalize ==
    /\ html = [generatorMeta |-> FALSE, officeNs |-> FALSE, styles |-> {}, body |-> <<>>]
    /\ doc = <<>> /\ items = <<>> /\ idx = 1 /\ stack = <<>>
    /\ encounteredLists = NoCounters /\ created = {} /\ inputLists = {}
    /\ pass = 1 /\ pc = "idle" /\ output = <<>>

InitClasses ==
    /\ classIn \in ClassLists
    /\ classList = classIn
    /\ classIdx = 1
    /\ IdleNormalize
    /\ IdleStyle

\* lines 159-163, one turn of the loop
ClassTurn ==
    /\ ClassLoopRuns(classList, classIdx, classIn)
    /\ classList' = ClassLoopStep(classList, classIdx, classIn)
    /\ classIdx' = classIdx + 1
    /\ UNCHANGED <<classIn, normVars, styleVars>>

ClassLoopDone == ~ClassLoopRuns(classList, classIdx, classIn)

SpecClasses == InitClasses /\ [][ClassTurn]_vars

----------------------------------------------------------------------------
(* detectListStyle on its own *)

NumberFormats == {Undefined, "bullet", "alpha-lower"}

\* the rules a style sheet can hold for one level of list 1
RulesFor(level) ==
    {Rule("1", level, nf, sa, lt) :
        nf \in NumberFormats, sa \in {JsNull, Num(StartAtFive)}, lt \in BOOLEAN}

\* style sheets with at most one rule for each level of list 1
StyleSheets ==
    {UNION {f[lv] : lv \in 1..MaxLevel} :
        f \in [1..MaxLevel -> {{}} \cup {{r} : r \in UNION {RulesFor(lv) : lv \in 1..MaxLevel}}]}

WellFormedSheet(sh) ==
    \A r1, r2 \in sh : r1.level = r2.level => r1 = r2

\* a document with one list paragraph of list 1
StyleDoc == BuildDoc(<<[k |-> "item", tag |-> "p", mso |-> MsoValue("1", "1", 1)]>>)
StyleElement == Body + 1

InitStyle ==
    /\ sheet \in {sh \in StyleSheets : WellFormedSheet(sh)}
    /\ query \in {[id |-> "1", order |-> "1", indent |-> lv, element |-> StyleElement] :
                     lv \in 1..MaxLevel}
    /\ result = [type |-> "none"]
    /\ IdleSniff
    /\ IdleNormalize
    /\ IdleClass

Detect ==
    /\ result = [type |-> "none"]
    /\ result' = detectListStyle(StyleDoc, query, sheet)
    /\ UNCHANGED <<query, sheet, childNodes, marker, normVars, classVars>>

SpecStyle == InitStyle /\ [][Detect]_vars

----------------------------------------------------------------------------
(* findBulletedListStyle on its own *)

MaxChildren == 3     \* child nodes of the element

\* the texts of the child nodes: "o", a middle dot and a space, the section
\* sign, "oo", and no text
MarkerTexts == {<<CP_o>>, <<CP_middot, 32>>, <<CP_section>>, <<CP_o, CP_o>>, <<>>}

\* what a child node of the element can be: a text node, a <span>, an <a>,
\* an <element>
ChildKinds ==
    {Inline("text", Undefined, <<CP_o>>, FALSE)}
    \cup {Inline("element", "span", t, TRUE) : t \in MarkerTexts}
    \cup {Inline("element", "a", t, FALSE) : t \in {<<CP_o>>, <<CP_middot, 32>>}}
    \cup {Inline("element", "element", <<CP_section>>, FALSE)}

\* a list paragraph with the given child nodes
SniffDoc(content) == [StyleDoc EXCEPT ![StyleElement].content = content]

InitSniff ==
    /\ childNodes \in UNION {[1..n -> ChildKinds] : n \in 0..MaxChildren}
    /\ marker = "none"
    /\ query = [element |-> NoNode] /\ sheet = {} /\ result = [type |-> "none"]
    /\ IdleNormalize
    /\ IdleClass

Sniff ==
    /\ marker = "none"
    /\ marker' = findBulletedListStyle(SniffDoc(childNodes), StyleElement)
    /\ UNCHANGED <<childNodes, query, sheet, result, normVars, classVars>>

SpecSniff == InitSniff /\ [][Sniff]_vars

----------------------------------------------------------------------------
(* Properties *)

\* the children of <body> in the input, and what the input says about them
InputKids == html.body[Body].children
InputIsItem(n) == IsItemLike(html.body, n)
InputData(n) == getListItemData(html.body[n].style)
InputId(n) == IdOf(InputData(n))
InputLevel(n) == InputData(n).indent

\* the first call of normalize has run its loop to the end
Reconstructed == pass = 1 /\ pc \in {"cleanup", "done"}

\* the <li> that carries a processed block: the block itself if it is an <li>
LiOf(d, c) == IF d[c].tagName = "li" THEN c ELSE d[c].parent

\* the list container a processed block was put in
ContainerOf(d, c) == d[LiOf(d, c)].parent

\* the list containers among the children of a node
ListChildren(d, n) == SelectSeq(d[n].children, LAMBDA c : isList(d, c))

\* C1: normalize never throws, whatever the input: not for an mso-list value
\* with level 0, not for a candidate that follows a text or a comment node.
C1_NeverThrows == pc # "thrown"

\* C2: when isActive is false for the input, normalize inserts no <ul>/<ol>:
\* the list containers of the output are those of the input.
C2_InactiveKeepsLists ==
    (Reconstructed /\ ~isActive(html)) =>
        (created = {} /\ ListsOf(doc) = inputLists)

\* C2 as amended: normalize does not consult isActive.  Whatever isActive
\* returns, it creates list containers exactly when the body holds a list-item
\* candidate, and without a candidate the list containers of the output are
\* those of the input.
C2_ListsIffCandidates ==
    Reconstructed =>
        LET hasCandidate == \E n \in 1..Len(html.body) : InputIsItem(n) IN
        /\ (created # {}) <=> hasCandidate
        /\ ~hasCandidate => ListsOf(doc) = inputLists

C2_Witness ==
    /\ Reconstructed /\ pc = "done"
    /\ ~isActive(html)
    /\ created # {}
    /\ ListsOf(doc) # inputLists

\* Three children of <body> at positions k, k+1, k+2 are candidates of one
\* list with the levels 1, 2, 1, and they are a whole run: no candidate and no
\* list container is next to them.
IsRun121(k) ==
    /\ k + 2 <= Len(InputKids)
    /\ \A j \in 0..2 : InputIsItem(InputKids[k + j])
    /\ InputId(InputKids[k]) # Undefined
    /\ \A j \in 1..2 : InputId(InputKids[k + j]) = InputId(InputKids[k])
    /\ InputLevel(InputKids[k]) = 1
    /\ InputLevel(InputKids[k + 1]) = 2
    /\ InputLevel(InputKids[k + 2]) = 1
    /\ k > 1 => /\ IsElement(html.body, InputKids[k - 1])
                /\ ~isList(html.body, InputKids[k - 1])
                /\ ~InputIsItem(InputKids[k - 1])
    /\ k + 3 <= Len(InputKids) => /\ ~InputIsItem(InputKids[k + 3])
                                  /\ ~isList(html.body, InputKids[k + 3])

\* C3: candidates of one list with the levels 1, 2, 1 give one top-level
\* container with exactly two <li>; the first <li> holds one nested container
\* with exactly one <li>, that of the second candidate; the third candidate is
\* in the top-level container.
C3_OneTwoOne ==
    Reconstructed =>
        \A k \in 1..Len(InputKids) :
            IsRun121(k) =>
                LET c1 == InputKids[k]
                    c2 == InputKids[k + 1]
                    c3 == InputKids[k + 2]
                    top == ContainerOf(doc, c1)
                    inner == ListChildren(doc, LiOf(doc, c1))
                IN /\ top \in created
                   /\ doc[top].parent = Body
                   /\ doc[top].children = <<LiOf(doc, c1), LiOf(doc, c3)>>
                   /\ \A c \in {c1, c2, c3} : doc[LiOf(doc, c)].tagName = "li"
                   /\ Len(inner) = 1
                   /\ inner[1] \in created
                   /\ doc[inner[1]].children = <<LiOf(doc, c2)>>
                   /\ ListChildren(doc, LiOf(doc, c2)) = <<>>
                   /\ ListChildren(doc, LiOf(doc, c3)) = <<>>

C3_Witness ==
    /\ Reconstructed
    /\ \E k \in 1..Len(InputKids) :
          /\ IsRun121(k)
          /\ Len(doc[ContainerOf(doc, InputKids[k])].children) = 2
          /\ ContainerOf(doc, InputKids[k + 2]) = ContainerOf(doc, InputKids[k])


----------------------------------------------------------------------------
(* Numbering of reopened lists *)

\* the engine is in, or past, the loop of the first call
InFirstPass == pass = 1 /\ pc \in {"transform", "cleanup", "done"}

\* the position of a candidate in itemLikeElements
ItemIndex(c) == CHOOSE k \in 1..Len(items) : items[k].element = c

\* the listId:indentLevel key of the item at a position
KeyAt(k) == <<IdOf(items[k]), items[k].indent>>

\* the candidate whose processing opened a container: the block of its first <li>
Opener(d, list) ==
    LET li == d[list].children[1] IN
    IF li <= Len(html.body) THEN li ELSE d[li].children[1]

OpenerIndex(d, list) == ItemIndex(Opener(d, list))

\* a container of depth 0: not inside an <li>
IsDepth0(d, list) ==
    d[list].parent = NoNode \/ d[d[list].parent].tagName # "li"

\* the item at position k has been put in a container of depth 0
AtDepth0(d, k) == k < idx /\ IsDepth0(d, ContainerOf(d, items[k].element))

\* the items with the given key put at depth 0 from position from to position to
Counted(d, key, from, to) ==
    Cardinality({k \in from..to : KeyAt(k) = key /\ AtDepth0(d, k)})

\* the position of the candidate that opened the first depth-0 container of a key
FirstOpenerIndex(d, key) ==
    LET opened == {OpenerIndex(d, l) : l \in {n \in created : IsDepth0(d, n)}}
        mine == {k \in opened : KeyAt(k) = key}
    IN CHOOSE k \in mine : \A j \in mine : k <= j

\* the start-at values the style sheet gives a key
StartAtOf(key) ==
    {r.startAt.n : r \in {x \in html.styles :
                             x.id = key[1] /\ x.level = key[2] /\ IsNum(x.startAt)}}

\* the number an <ol> starts at: its start attribute, 1 without one
StartOf(d, list) == IF IsNum(d[list].start) THEN d[list].start.n ELSE 1

\* C4: a depth-0 ordered list whose rule sets start-at s (5 in the inputs):
\* its first container has start s; a container opened when the key comes
\* back after n of its items were added at depth 0 has start s + n.
C4_StartAtResumes ==
    InFirstPass =>
        \A l \in created :
            (IsDepth0(doc, l) /\ doc[l].tagName = "ol") =>
                LET o == OpenerIndex(doc, l)
                    key == KeyAt(o)
                    n == Counted(doc, key, FirstOpenerIndex(doc, key), o - 1)
                IN \A s \in StartAtOf(key) :
                      /\ doc[l].start = Num(s + n)
                      /\ o = FirstOpenerIndex(doc, key) => doc[l].start = Num(s)

C4_Witness ==
    /\ InFirstPass
    /\ \E l1, l2 \in created :
          /\ IsDepth0(doc, l1) /\ IsDepth0(doc, l2)
          /\ KeyAt(OpenerIndex(doc, l1)) = KeyAt(OpenerIndex(doc, l2))
          /\ StartAtOf(KeyAt(OpenerIndex(doc, l1))) = {StartAtFive}
          /\ doc[l1].start = Num(StartAtFive)
          /\ doc[l2].start = Num(StartAtFive + Len(doc[l1].children))

\* Children k and k+2 of <body> are candidates of one list on one level, both
\* end in ordered containers of depth 0, and child k+1 is a plain paragraph.
IsInterrupted(k) ==
    /\ k + 2 <= Len(InputKids)
    /\ InputIsItem(InputKids[k]) /\ InputIsItem(InputKids[k + 2])
    /\ InputId(InputKids[k]) # Undefined
    /\ InputId(InputKids[k + 2]) = InputId(InputKids[k])
    /\ InputLevel(InputKids[k + 2]) = InputLevel(InputKids[k])
    /\ IsElement(html.body, InputKids[k + 1])
    /\ ~InputIsItem(InputKids[k + 1])
    /\ ~isList(html.body, InputKids[k + 1])
    /\ \A c \in {InputKids[k], InputKids[k + 2]} :
          /\ IsDepth0(doc, ContainerOf(doc, c))
          /\ doc[ContainerOf(doc, c)].tagName = "ol"

\* C5: two depth-0 ordered candidates of one list and level with a plain
\* paragraph between them: the second opens a new container that restarts at
\* 1 (no start attribute above 1).
C5_RestartsAtOne ==
    Reconstructed =>
        \A k \in 1..Len(InputKids) :
            IsInterrupted(k) =>
                LET l == ContainerOf(doc, InputKids[k + 2]) IN
                /\ l \in created
                /\ l # ContainerOf(doc, InputKids[k])
                /\ StartOf(doc, l) = 1

\* C5 as amended: the second candidate opens a new container, and when the
\* first candidate's container was opened for the same listId:level key the
\* new container resumes the numbering: it starts at the number the earlier
\* container starts at plus the items of that key counted in it.
C5_ResumesAfterParagraph ==
    Reconstructed =>
        \A k \in 1..Len(InputKids) :
            IsInterrupted(k) =>
                LET c1 == InputKids[k]
                    c3 == InputKids[k + 2]
                    before == ContainerOf(doc, c1)
                    l == ContainerOf(doc, c3)
                    key == KeyAt(ItemIndex(c3))
                IN /\ l \in created
                   /\ l # before
                   /\ Opener(doc, l) = c3
                   /\ KeyAt(OpenerIndex(doc, before)) = key =>
                         /\ doc[l].start =
                              Num(StartOf(doc, before)
                                  + Counted(doc, key, OpenerIndex(doc, before), ItemIndex(c1)))
                         /\ StartOf(doc, l) > 1

C5_Witness ==
    /\ Reconstructed
    /\ \E k \in 1..Len(InputKids) :
          /\ IsInterrupted(k)
          /\ StartAtOf(KeyAt(ItemIndex(InputKids[k]))) = {}
          /\ Opener(doc, ContainerOf(doc, InputKids[k])) = InputKids[k]
          /\ doc[ContainerOf(doc, InputKids[k + 2])].start = Num(2)

\* C6: when a depth-0 ordered container is opened for a key that has a running
\* counter, an explicit start-at of the style rule is the container's start
\* index: the counter does not override it.
C6_ExplicitStartWins ==
    InFirstPass =>
        \A l \in created :
            (IsDepth0(doc, l) /\ doc[l].tagName = "ol") =>
                \A s \in StartAtOf(KeyAt(OpenerIndex(doc, l))) :
                    s > 1 => doc[l].start = Num(s)

\* the start attribute createNewEmptyList sets for a start index
StartAttribute(v) == IF Truthy(v) /\ v.n > 1 THEN v ELSE JsNull

\* C6 as amended: a step that opens a depth-0 ordered container for a key with
\* a running counter gives it the counter as start index whether or not the
\* style rule sets start-at; the rule's start-at is the start index only when
\* the key has no running counter.
C6_CounterWins ==
    [][(pass = 1 /\ pc = "transform" /\ pc' # "thrown" /\ created' # created) =>
          LET l == CHOOSE n \in created' : n \notin created
              item == items[idx]
              counter == Counter(encounteredLists, <<IdOf(item), item.indent>>)
              explicit == detectListStyle(doc, item, html.styles).startIndex
          IN (IsDepth0(doc', l) /\ doc'[l].tagName = "ol" /\ IdOf(item) # Undefined) =>
                doc'[l].start = IF Truthy(counter) THEN StartAttribute(counter)
                                ELSE StartAttribute(explicit)]_vars

C6_Witness ==
    /\ pass = 1 /\ pc \in {"transform", "cleanup"}
    /\ stack # <<>>
    /\ StartAtOf(<<stack[1].id, stack[1].indent>>) = {StartAtFive}
    /\ IsNum(doc[stack[1].listElement].start)
    /\ doc[stack[1].listElement].start.n > StartAtFive
    /\ Counter(encounteredLists, <<stack[1].id, stack[1].indent>>)
         = Num(doc[stack[1].listElement].start.n + Len(stack[1].listItemElements))


----------------------------------------------------------------------------
(* Legal-style lists *)

\* detectListStyle has returned
Detected == result.type # "none"

\* some level of the queried list has a legal-outline mso-level-text
QueryHasLegalText == \E r \in sheet : r.id = IdOf(query) /\ r.legalText

\* some level of the queried list has an mso-level-number-format
QueryHasNumberFormat == \E r \in sheet : r.id = IdOf(query) /\ r.numberFormat # Undefined

\* the rule of the queried level says bullet
QueryLevelIsBullet ==
    \E r \in sheet : r.id = IdOf(query) /\ r.level = query.indent /\ r.numberFormat = "bullet"

\* C7: a list with a legal-outline mso-level-text at some level resolves to
\* <ol> at every level, also at a level whose rule says bullet.
C7_LegalForcesOl == (Detected /\ QueryHasLegalText) => result.type = "ol"

\* C7 as amended: the list is a legal-style list only if, besides the legal
\* mso-level-text at some level, no level of it has mso-level-number-format;
\* then every level resolves to <ol>.  A level whose rule says bullet
\* resolves to <ul>, whatever mso-level-text the list has.
C7_LegalUnlessNumberFormat ==
    Detected =>
        /\ result.isLegalStyleList <=> (QueryHasLegalText /\ ~QueryHasNumberFormat)
        /\ (QueryHasLegalText /\ ~QueryHasNumberFormat) => result.type = "ol"
        /\ QueryLevelIsBullet => result.type = "ul"

C7_Witness ==
    /\ Detected
    /\ QueryHasLegalText
    /\ QueryLevelIsBullet
    /\ result.type = "ul"
    /\ ~result.isLegalStyleList

----------------------------------------------------------------------------
(* Round trip, cleanup, attachment *)

\* some element of a document declares mso-list in its inline style
DeclaresMsoList(d) ==
    \E n \in 1..Len(d) : IsElement(d, n) /\ HasProperty(d[n].style, K_msoList)

\* C8: normalize(normalize(x)) does not throw, and the second pass finds no
\* candidate: no element of the first pass's output declares mso-list, no
\* container is created.
C8_RoundTripStable ==
    /\ pc # "thrown"
    /\ pass = 2 => /\ ~DeclaresMsoList(html.body)
                   /\ pc # "start" => (items = <<>> /\ created = {})

\* "mso" in any letter case anywhere in a name
ContainsMso(str) ==
    \E k \in 1..(Len(str) - 2) :
        <<ToLowerChar(str[k]), ToLowerChar(str[k + 1]), ToLowerChar(str[k + 2])>>
            = <<"m", "s", "o">>

\* C9: after the cleanup no class name of an element contains "mso", for any
\* number and order of classes, and the classes without it are kept.
C9_NoMsoClassLeft ==
    ClassLoopDone =>
        /\ \A k \in 1..Len(classList) : ~ContainsMso(classList[k])
        /\ \A k \in 1..Len(classIn) :
              ~ContainsMso(classIn[k]) => \E j \in 1..Len(classList) : classList[j] = classIn[k]

\* C10: every container the engine creates is attached to the tree when it is
\* created, so every candidate stays below <body>.
C10_EverythingAttached ==
    InFirstPass =>
        /\ \A l \in created : IsAttached(doc, l)
        /\ \A k \in 1..Len(items) : IsAttached(doc, items[k].element)

----------------------------------------------------------------------------
(* Stack shape, continuation, list ids *)

\* a step of the first call that processes the candidate at idx to the end
Processes == pass = 1 /\ pc = "transform" /\ pc' # "thrown" /\ idx' = idx + 1

\* the stack the candidate at idx meets once the continuation check is done
StackMet ==
    IF isList(doc, ContinuationNode(doc, items[idx])) THEN stack ELSE <<>>

\* min(indentLevel - 1, stack length): the normalized depth of the candidate at idx
DepthMet == Min(items[idx].indent - 1, Len(StackMet))

Continues ==
    LET prev == previousSibling(doc, items[idx].element) IN
    IF prev # NoNode THEN isList(doc, prev)
    ELSE isList(doc, doc[items[idx].element].parent)

\* the candidate at idx has opened a new container of depth 0 on an empty stack
OpensAtDepth0 ==
    /\ pc' # "thrown"
    /\ Len(stack') = 1
    /\ stack'[1].listElement \in created' \ created
    /\ stack'[1].element = items[idx].element
    /\ IsDepth0(doc', stack'[1].listElement)

\* C12: the stack is kept for a candidate only if its previous sibling is a
\* list container, or it has none and its parent is one; after any other
\* previous sibling node (a non-list element, a text node, a comment node) the
\* stack is reset and the candidate opens a new container of depth 0.
C12_ContinuationRule ==
    [][(pass = 1 /\ pc = "transform") =>
          IF Continues
          THEN pc' # "thrown" => Len(stack') = Min(items[idx].indent - 1, Len(stack)) + 1
          ELSE OpensAtDepth0]_vars

\* itemLikeElement.order, undefined when the property is missing
OrderOf(item) == IF "order" \in DOMAIN item THEN item.order ELSE Undefined

\* the candidate a <li> of a created container carries
BlockOf(d, li) == IF d[li].tagName = "li" /\ li <= Len(html.body) THEN li ELSE d[li].children[1]

\* every <li> of a created container comes from a candidate with the listId
\* of the candidate that opened the container
SameListId ==
    \A l \in created :
        \A k \in 1..Len(doc[l].children) :
            IdOf(items[ItemIndex(BlockOf(doc, doc[l].children[k]))])
                = IdOf(items[OpenerIndex(doc, l)])

\* C13: when the normalized depth of a candidate is inside the stack and the
\* frame there has another listId, the stack is cut to that depth and a new
\* container is opened for the candidate; so all <li> of one container come
\* from candidates with the listId of the one that opened it.
C13_ListIdSeparation ==
    [][Processes =>
          /\ (/\ DepthMet >= 0
              /\ DepthMet < Len(StackMet)
              /\ StackMet[DepthMet + 1].id # IdOf(items[idx])) =>
                 /\ Len(stack') = DepthMet + 1
                 /\ SubSeq(stack', 1, DepthMet) = SubSeq(StackMet, 1, DepthMet)
                 /\ stack'[DepthMet + 1].listElement \in created' \ created
                 /\ stack'[DepthMet + 1].id = IdOf(items[idx])
          /\ SameListId']_vars

\* a candidate of another list has followed an open container of depth 0, and
\* one container holds two <li> of one list with different lfo values
C13_Witness ==
    /\ InFirstPass
    /\ \E l1, l2 \in created :
          /\ l1 # l2
          /\ IsDepth0(doc, l1) /\ IsDepth0(doc, l2)
          /\ previousSibling(doc, l2) = l1
          /\ IdOf(items[OpenerIndex(doc, l1)]) # IdOf(items[OpenerIndex(doc, l2)])
          /\ OpenerIndex(doc, l2) = OpenerIndex(doc, l1) + Len(doc[l1].children)
          /\ \E j, k \in 1..Len(doc[l1].children) :
                OrderOf(items[ItemIndex(BlockOf(doc, doc[l1].children[j]))])
                    # OrderOf(items[ItemIndex(BlockOf(doc, doc[l1].children[k]))])

----------------------------------------------------------------------------
(* Bullet glyphs *)

\* findBulletedListStyle has returned
Sniffed == marker # "none"

\* the list style of a marker text: "o", a text that starts with the middle
\* dot, the section sign; unknown otherwise
GlyphOf(text) ==
    IF text = <<CP_o>> THEN "circle"
    ELSE IF text # <<>> /\ text[1] = CP_middot THEN "disc"
    ELSE IF text = <<CP_section>> THEN "square"
    ELSE Null

\* the <span> children of the element
SpanChildren ==
    SelectSeq(childNodes, LAMBDA c : c.nodeType = "element" /\ c.tagName = "span")

\* C14: when the first child node of the element is a text node the result is
\* unknown (null), whatever span follows; otherwise the first <span> child is
\* taken, other element children skipped, and its text mapped: "o" to circle,
\* a text starting with code point 183 to disc, the section sign to square,
\* anything else, and no span at all, to unknown.
C14_GlyphSniffing ==
    Sniffed =>
        IF childNodes # <<>> /\ childNodes[1].nodeType = "text" THEN marker = Null
        ELSE IF SpanChildren = <<>> THEN marker = Null
        ELSE marker = GlyphOf(SpanChildren[1].text)

====
